---- MODULE Spec2Model ----
(***************************************************************************)
(* Model of nx/source/services/bsd.c: the client side of the "bsd:u" /     *)
(* "bsd:s" socket service.  The session state is the four file-scope       *)
(* objects g_bsdSrv, g_bsdMonitor, g_bsdClientPid and g_bsdTmem; every     *)
(* public function is one action.  The IPC transport, the service manager  *)
(* and the transfer-memory primitive are outside the file: their outcomes  *)
(* are inputs chosen with \E.                                              *)
(***************************************************************************)
EXTENDS Integers, Sequences, FiniteSets, TLC

VARIABLES g_bsdSrv, g_bsdMonitor, g_bsdTmem, g_bsdClientPid, errno,
          dispatchCount, call, probe

vars == <<g_bsdSrv, g_bsdMonitor, g_bsdTmem, g_bsdClientPid, errno,
          dispatchCount, call, probe>>

(***************************************************************************)
(* Fixed-width arithmetic.  A u32 is four base-256 digits, least           *)
(* significant first; sums and products wrap modulo 2^32 exactly as the    *)
(* C operators on u32 do.  The same digit operators on WideLen digits give *)
(* the arithmetic of the naturals for every value a configuration can      *)
(* produce (at most 2^32 * 2^35), which the properties of the size formula *)
(* are compared against.                                                   *)
(***************************************************************************)
\* 0xFFFFFFFF
U32Max == <<255, 255, 255, 255>>
U32Len == Len(U32Max)
WideLen == 2 * U32Len + 1

RECURSIVE Digits(_, _)
Digits(n, len) == IF len = 0 THEN <<>> ELSE <<n % 256>> \o Digits(n \div 256, len - 1)

\* the u32 whose value is n, for 0 <= n < 2^31
U32(n) == Digits(n, U32Len)

Zero(len) == [i \in 1..len |-> 0]
Widen(a, len) == [i \in 1..len |-> IF i <= Len(a) THEN a[i] ELSE 0]
Truncate(a, len) == [i \in 1..len |-> a[i]]
IsZero(a) == \A i \in 1..Len(a) : a[i] = 0

RECURSIVE AddFrom(_, _, _, _)
AddFrom(a, b, i, carry) ==
  IF i > Len(a) THEN <<>>
  ELSE LET s == a[i] + b[i] + carry
       IN <<s % 256>> \o AddFrom(a, b, i + 1, s \div 256)

\* a + b modulo 256^Len(a)
Add(a, b) == AddFrom(a, b, 1, 0)

RECURSIVE Column(_, _, _, _)
Column(a, b, k, i) ==
  IF i > k THEN 0 ELSE a[i] * b[k + 1 - i] + Column(a, b, k, i + 1)

RECURSIVE MulFrom(_, _, _, _)
MulFrom(a, b, k, carry) ==
  IF k > Len(a) THEN <<>>
  ELSE LET s == Column(a, b, k, 1) + carry
       IN <<s % 256>> \o MulFrom(a, b, k + 1, s \div 256)

\* a * b modulo 256^Len(a)
Mul(a, b) == MulFrom(a, b, 1, 0)

\* ((x + 0xFFF) >> 12) << 12 on Len(x) digits
PageRoundUp(x) ==
  LET y == Add(x, Widen(<<255, 15>>, Len(x)))
  IN [i \in 1..Len(x) |-> IF i = 1 THEN 0 ELSE IF i = 2 THEN y[2] - (y[2] % 16) ELSE y[i]]

RECURSIVE LeqFrom(_, _, _)
LeqFrom(a, b, i) ==
  IF i = 0 THEN TRUE
  ELSE IF a[i] # b[i] THEN a[i] < b[i]
  ELSE LeqFrom(a, b, i - 1)

\* a <= b for two numbers of the same length
Leq(a, b) == LeqFrom(a, b, Len(a))
Less(a, b) == Leq(a, b) /\ a # b

\* the value fits in 32 bits
FitsU32(w) == \A i \in (U32Len + 1)..Len(w) : w[i] = 0

(***************************************************************************)
(* BsdBufferConfig and the transfer-memory size.                           *)
(***************************************************************************)
g_defaultBsdBufferConfig ==
  [ version             |-> U32(1),
    tcp_tx_buf_size     |-> U32(32768),
    tcp_rx_buf_size     |-> U32(65536),
    tcp_tx_buf_max_size |-> U32(262144),
    tcp_rx_buf_max_size |-> U32(262144),
    udp_tx_buf_size     |-> U32(9216),
    udp_rx_buf_size     |-> U32(42240),
    sb_efficiency       |-> U32(4) ]

\* mutant: the page mask is applied without its complement
TransferMemSize_MaskSlip(config) ==
  LET tcp_tx_buf_max_size == IF ~IsZero(config.tcp_tx_buf_max_size)
                             THEN config.tcp_tx_buf_max_size ELSE config.tcp_tx_buf_size
      tcp_rx_buf_max_size == IF ~IsZero(config.tcp_rx_buf_max_size)
                             THEN config.tcp_rx_buf_max_size ELSE config.tcp_rx_buf_size
      sum == Add(Add(Add(tcp_tx_buf_max_size, tcp_rx_buf_max_size),
                     config.udp_tx_buf_size), config.udp_rx_buf_size)
      y == Add(sum, U32(4095))
      masked == <<y[1], y[2] % 16, 0, 0>>
  IN Widen(Mul(config.sb_efficiency, masked), 8)

\* mutant: the sum is rounded down to a page instead of up
TransferMemSize_RoundDown(config) ==
  LET tcp_tx_buf_max_size == IF ~IsZero(config.tcp_tx_buf_max_size)
                             THEN config.tcp_tx_buf_max_size ELSE config.tcp_tx_buf_size
      tcp_rx_buf_max_size == IF ~IsZero(config.tcp_rx_buf_max_size)
                             THEN config.tcp_rx_buf_max_size ELSE config.tcp_rx_buf_size
      sum == Add(Add(Add(tcp_tx_buf_max_size, tcp_rx_buf_max_size),
                     config.udp_tx_buf_size), config.udp_rx_buf_size)
      down == <<0, sum[2] - (sum[2] % 16), sum[3], sum[4]>>
  IN Widen(Mul(config.sb_efficiency, down), 8)

\* size_t _bsdGetTransferMemSizeForConfig(const BsdBufferConfig *config):
\* u32 arithmetic throughout; the u32 product is then widened to size_t.
_bsdGetTransferMemSizeForConfig(config) ==
  LET tcp_tx_buf_max_size == IF ~IsZero(config.tcp_tx_buf_max_size)
                             THEN config.tcp_tx_buf_max_size ELSE config.tcp_tx_buf_size
      tcp_rx_buf_max_size == IF ~IsZero(config.tcp_rx_buf_max_size)
                             THEN config.tcp_rx_buf_max_size ELSE config.tcp_rx_buf_size
      sum == Add(Add(Add(tcp_tx_buf_max_size, tcp_rx_buf_max_size),
                     config.udp_tx_buf_size), config.udp_rx_buf_size)
      rounded == PageRoundUp(sum)
  IN Widen(Mul(config.sb_efficiency, rounded), 8)

(***************************************************************************)
(* Session state and the collaborators it is built from.                   *)
(***************************************************************************)
Success == "Success"
AlreadyInitialized == "LibnxError_AlreadyInitialized"
R_SUCCEEDED(rc) == rc = Success
R_FAILED(rc) == rc # Success

\* a Service that holds no handle / one that holds the handle of `name`
NoService == [active |-> FALSE, name |-> "none"]
serviceIsActive(srv) == srv.active
\* smGetService(&srv, name) with result rc: the service is filled in on success only
smGetService(srv, name, rc) ==
  IF R_SUCCEEDED(rc) THEN [active |-> TRUE, name |-> name] ELSE srv
serviceClose(srv) == NoService

\* a TransferMemory that maps nothing / tmemCreate(&t, size, 0) with result rc
NoTmem == [live |-> FALSE, size |-> Zero(8)]
tmemCreate(t, size, rc) ==
  IF R_SUCCEEDED(rc) THEN [live |-> TRUE, size |-> size] ELSE NoTmem
tmemClose(t) == NoTmem

Session == [srv |-> g_bsdSrv, mon |-> g_bsdMonitor, tmem |-> g_bsdTmem, pid |-> g_bsdClientPid]

\* void bsdExit(void), on a session record
bsdExitSession(s) ==
  [s EXCEPT !.mon = serviceClose(s.mon), !.srv = serviceClose(s.srv), !.tmem = tmemClose(s.tmem)]

\* one entry of the record of what a bsdInitialize call did
Step(step, target, name, size) == [step |-> step, target |-> target, name |-> name, size |-> size]

\* mutant: the guard against a second initialization is missing
AlreadyActive_Missing(s) == FALSE

\* bsdInitialize's guard: serviceIsActive(&g_bsdSrv) || serviceIsActive(&g_bsdMonitor)
AlreadyActive(s) == serviceIsActive(s.srv) \/ serviceIsActive(s.mon)

\* mutant: the error path returns without tearing down
ErrorPath_NoExit(s) == s

\* bsdInitialize's "error:" label: bsdExit(); return rc;
ErrorPath(s) == bsdExitSession(s)

\* _bsdRegisterClient(srv, tmem, config, pid_out): x.reg_transport is serviceIpcDispatch's
\* result, x.reg_result and x.reg_pid the reply's fields.  The pid is stored whenever the
\* reply is parsed, whatever its result.
_bsdRegisterClient(s, config, x) ==
  LET raw == [cmd_id |-> 0, config |-> config, pid_reserved |-> 0, tmem_sz |-> s.tmem.size,
              sendPid |-> TRUE, handleCopy |-> "g_bsdTmem.handle"]
  IN IF R_SUCCEEDED(x.reg_transport)
     THEN [sess |-> [s EXCEPT !.pid = x.reg_pid], rc |-> x.reg_result, raw |-> raw]
     ELSE [sess |-> s, rc |-> x.reg_transport, raw |-> raw]

\* _bsdStartMonitor(srv, pid)
_bsdStartMonitor(s, x) ==
  LET raw == [cmd_id |-> 1, pid |-> s.pid, sendPid |-> TRUE]
  IN [rc |-> IF R_SUCCEEDED(x.mon_transport) THEN x.mon_result ELSE x.mon_transport, raw |-> raw]

NoRegister == [cmd_id |-> -1]

InitResult(s, rc, log, reg, nDispatch) ==
  [sess |-> s, rc |-> rc, log |-> log, reg |-> reg, nDispatch |-> nDispatch]

InitFail(s, rc, log, reg, nDispatch) ==
  InitResult(ErrorPath(s), rc, log \o <<Step("bsdExit", "all", "none", Zero(8))>>, reg, nDispatch)

\* Result bsdInitialize(const BsdBufferConfig *config), on session s with the
\* collaborators' outcomes x
bsdInitializeOutcome(s, config, x) ==
  IF AlreadyActive(s) THEN InitResult(s, AlreadyInitialized, <<>>, NoRegister, 0)
  ELSE
  LET rc1 == x.sm_s
      bsd_srv == IF R_FAILED(rc1) THEN "bsd:u" ELSE "bsd:s"
      rc2 == IF R_FAILED(rc1) THEN x.sm_u ELSE rc1
      s1 == [s EXCEPT !.srv = smGetService(s.srv, "bsd:s", rc1)]
      s2 == IF R_FAILED(rc1) THEN [s1 EXCEPT !.srv = smGetService(s1.srv, "bsd:u", rc2)] ELSE s1
      log2 == <<Step("smGetService", "g_bsdSrv", "bsd:s", Zero(8))>>
              \o (IF R_FAILED(rc1) THEN <<Step("smGetService", "g_bsdSrv", "bsd:u", Zero(8))>> ELSE <<>>)
  IN IF R_FAILED(rc2) THEN InitFail(s2, rc2, log2, NoRegister, 0) ELSE
  LET rc3 == x.sm_mon
      s3 == [s2 EXCEPT !.mon = smGetService(s2.mon, bsd_srv, rc3)]
      log3 == log2 \o <<Step("smGetService", "g_bsdMonitor", bsd_srv, Zero(8))>>
  IN IF R_FAILED(rc3) THEN InitFail(s3, rc3, log3, NoRegister, 0) ELSE
  LET size == _bsdGetTransferMemSizeForConfig(config)
      rc4 == x.tmem
      s4 == [s3 EXCEPT !.tmem = tmemCreate(s3.tmem, size, rc4)]
      log4 == log3 \o <<Step("tmemCreate", "g_bsdTmem", "none", size)>>
  IN IF R_FAILED(rc4) THEN InitFail(s4, rc4, log4, NoRegister, 0) ELSE
  LET reg == _bsdRegisterClient(s4, config, x)
      s5 == reg.sess
      log5 == log4 \o <<Step("serviceIpcDispatch", "g_bsdSrv", "register-client", reg.raw.tmem_sz)>>
  IN IF R_FAILED(reg.rc) THEN InitFail(s5, reg.rc, log5, reg.raw, 1) ELSE
  LET mon == _bsdStartMonitor(s5, x)
      log6 == log5 \o <<Step("serviceIpcDispatch", "g_bsdMonitor", "start-monitor", Zero(8))>>
  IN IF R_FAILED(mon.rc) THEN InitFail(s5, mon.rc, log6, reg.raw, 1)
     ELSE InitResult(s5, mon.rc, log6, reg.raw, 1)

(***************************************************************************)
(* Commands, replies and the dispatch helpers.                             *)
(***************************************************************************)
SFCI_MAGIC == 1229145939
EPIPE == 32
F_GETFL == 3
F_SETFL == 4

TransportFailure == "TransportFailure"
RemoteFailure == "RemoteFailure"
NULL == "NULL"

\* what serviceIpcDispatch(&g_bsdSrv) can return: a closed service has no handle to send on
TransportResults == IF serviceIsActive(g_bsdSrv) THEN {Success, TransportFailure} ELSE {TransportFailure}

\* the reply buffer: BsdIpcResponseBase followed by one trailing scalar
Replies == [result : {Success, RemoteFailure}, ret : {-1, 0}, errno_ : {0, 11, EPIPE}, trailing : {28}]
\* what the reply buffer holds when the transport call failed: nothing was received, so it
\* is whatever an earlier exchange left there
StaleReplies == {r \in Replies : r.ret = 0 /\ r.errno_ = 11}
ReplyBuffers(rc0) == IF R_SUCCEEDED(rc0) THEN Replies ELSE StaleReplies
NoReply == [result |-> "none", ret |-> 0, errno_ |-> 0, trailing |-> 0]
\* an IpcParsedCommand that ipcParse never filled: its content is whatever the stack held
Indeterminate == {[NoReply EXCEPT !.trailing = t] : t \in {0, 99}}

\* one ipcAdd{Send,Recv}{Buffer,Static}(&c, ptr, len, arg) call
Desc(kind, dir, ptr, len, arg) == [kind |-> kind, dir |-> dir, ptr |-> ptr, len |-> len, arg |-> arg]
ipcAddSendBuffer(ptr, len, flags) == Desc("buffer", "send", ptr, len, flags)
ipcAddSendStatic(ptr, len, index) == Desc("static", "send", ptr, len, index)
ipcAddRecvBuffer(ptr, len, flags) == Desc("buffer", "recv", ptr, len, flags)
ipcAddRecvStatic(ptr, len, index) == Desc("static", "recv", ptr, len, index)

\* a command: the raw header's fields in layout order, and the descriptors in call order
Cmd(cmd_id, fields, descs) ==
  [cmd_id |-> cmd_id,
   fields |-> <<<<"magic", SFCI_MAGIC>>, <<"cmd_id", cmd_id>>>> \o fields,
   descs |-> descs]
NoCmd == [cmd_id |-> -1, fields |-> <<>>, descs |-> <<>>]

\* a caller's length pointer (socklen_t * / size_t *): null, or pointing at val
LenPtr(null, val) == [null |-> null, val |-> val]
NoLen == LenPtr(TRUE, 0)
LenPtrs == {NoLen, LenPtr(FALSE, 16)}

\* mutant: the reply is read even when the transport call failed
DispatchBasic_ParsesAlways(rc0, reply, junk, errnoIn) ==
  LET rc == reply.result
      ok == R_SUCCEEDED(rc)
  IN [ret |-> IF ok THEN reply.ret ELSE -1,
      errno |-> IF R_FAILED(rc) THEN EPIPE ELSE reply.errno_,
      r |-> reply]

\* mutant: errno is left alone when the reply reports success
DispatchBasic_KeepsErrno(rc0, reply, junk, errnoIn) ==
  LET parsed == R_SUCCEEDED(rc0)
      rc == IF parsed THEN reply.result ELSE rc0
      ok == parsed /\ R_SUCCEEDED(rc)
  IN [ret |-> IF ok THEN reply.ret ELSE -1,
      errno |-> IF R_FAILED(rc) THEN EPIPE ELSE errnoIn,
      r |-> IF parsed THEN reply ELSE junk]

\* static int _bsdDispatchBasicCommand(IpcCommand *c, IpcParsedCommand *rOut):
\* rc0 is serviceIpcDispatch's result, reply the content of the reply buffer, junk the
\* unwritten local r, errnoIn the errno before the call.
_bsdDispatchBasicCommand(rc0, reply, junk, errnoIn) ==
  LET parsed == R_SUCCEEDED(rc0)
      rc == IF parsed THEN reply.result ELSE rc0
      ok == parsed /\ R_SUCCEEDED(rc)
  IN [ret |-> IF ok THEN reply.ret ELSE -1,
      errno |-> IF R_FAILED(rc) THEN EPIPE ELSE IF ok THEN reply.errno_ ELSE errnoIn,
      r |-> IF parsed THEN reply ELSE junk]

\* mutant: the trailing length is stored whatever the return value
WithOutAddrlen_NoRetCheck(rc0, reply, junk, errnoIn, addrlen) ==
  LET b == _bsdDispatchBasicCommand(rc0, reply, junk, errnoIn)
  IN [ret |-> b.ret, errno |-> b.errno,
      len |-> IF ~addrlen.null THEN LenPtr(FALSE, b.r.trailing) ELSE addrlen]

\* static int _bsdDispatchCommandWithOutAddrlen(IpcCommand *c, socklen_t *addrlen)
_bsdDispatchCommandWithOutAddrlen(rc0, reply, junk, errnoIn, addrlen) ==
  LET b == _bsdDispatchBasicCommand(rc0, reply, junk, errnoIn)
  IN [ret |-> b.ret, errno |-> b.errno,
      len |-> IF b.ret # -1 /\ ~addrlen.null THEN LenPtr(FALSE, b.r.trailing) ELSE addrlen]

\* a call through _bsdDispatchBasicCommand(&c, NULL): no length is written back
BasicNoOut(rc0, reply, junk, errnoIn, len) ==
  LET b == _bsdDispatchBasicCommand(rc0, reply, junk, errnoIn)
  IN [ret |-> b.ret, errno |-> b.errno, len |-> len]

\* bsdSysctl's own tail: _bsdDispatchBasicCommand(&c, &r), then *oldlenp = resp->oldlenp
SysctlOut(rc0, reply, junk, errnoIn, oldlenp) ==
  LET b == _bsdDispatchBasicCommand(rc0, reply, junk, errnoIn)
  IN [ret |-> b.ret, errno |-> b.errno,
      len |-> IF b.ret # -1 /\ ~oldlenp.null THEN LenPtr(FALSE, b.r.trailing) ELSE oldlenp]

(***************************************************************************)
(* The record of the last call, and the two probes of the size function.   *)
(***************************************************************************)
NoCall ==
  [op |-> "none", rc |-> Success, log |-> <<>>, config |-> g_defaultBsdBufferConfig,
   reg |-> NoRegister, sessionBefore |-> FALSE,
   fd |-> -1, cmd |-> NoCmd, nDispatch |-> 0, transport |-> "none", reply |-> NoReply, ret |-> 0,
   lenIn |-> NoLen, lenOut |-> NoLen, request |-> 0, vaTaken |-> 0]

NoProbe ==
  [pc |-> "off", lo |-> g_defaultBsdBufferConfig, hi |-> g_defaultBsdBufferConfig,
   field |-> "none", sizeLo |-> Zero(8), sizeHi |-> Zero(8)]

\* the longest run of calls that dispatch on the control channel
MaxDispatch == 2

Fds == {3, 4}

\* the model follows runs of at most MaxDispatch dispatches
Within == dispatchCount < MaxDispatch

\* a socket call that sent cmd: mode selects the dispatch helper the function uses
Dispatched(op, fd, cmd, mode, len, request, vaTaken) ==
  /\ \E rc0 \in TransportResults :
     \E reply \in ReplyBuffers(rc0),
        junk \in (IF mode = "basic" \/ R_SUCCEEDED(rc0) THEN {NoReply} ELSE Indeterminate) :
       LET d == IF mode = "addrlen"
                THEN _bsdDispatchCommandWithOutAddrlen(rc0, reply, junk, errno, len)
                ELSE IF mode = "sysctl"
                THEN SysctlOut(rc0, reply, junk, errno, len)
                ELSE BasicNoOut(rc0, reply, junk, errno, len)
       IN /\ errno' = d.errno
          /\ call' = [NoCall EXCEPT !.op = op, !.fd = fd, !.cmd = cmd, !.nDispatch = 1,
                                    !.transport = rc0, !.reply = reply, !.ret = d.ret,
                                    !.lenIn = len, !.lenOut = d.len,
                                    !.request = request, !.vaTaken = vaTaken,
                                    !.sessionBefore = serviceIsActive(g_bsdSrv)]
  /\ dispatchCount' = dispatchCount + 1
  /\ UNCHANGED <<g_bsdSrv, g_bsdMonitor, g_bsdTmem, g_bsdClientPid, probe>>

(***************************************************************************)
(* Session operations.                                                     *)
(***************************************************************************)
\* the configuration passed to bsdInitialize: bsdGetDefaultBufferConfig(), or the one
\* under study when the size function is being probed
InitConfigs ==
  IF probe.pc = "off" THEN {g_defaultBsdBufferConfig}
  ELSE IF probe.pc = "done" THEN {probe.lo}
  ELSE {}

\* the collaborators' outcomes during one bsdInitialize: every step succeeds, or exactly one
\* fails (steps after a failure never run); "bsd:s" may fail and "bsd:u" then succeed
AllSucceed ==
  [sm_s |-> Success, sm_u |-> Success, sm_mon |-> Success, tmem |-> Success,
   reg_transport |-> Success, reg_result |-> Success, reg_pid |-> 86,
   mon_transport |-> Success, mon_result |-> Success]
Outcomes ==
  LET u == [AllSucceed EXCEPT !.sm_s = "sm(bsd:s)"]
  IN UNION { { x,
               [x EXCEPT !.sm_mon = "sm(monitor)"],
               [x EXCEPT !.tmem = "tmemCreate"],
               [x EXCEPT !.reg_transport = "register:transport"],
               [x EXCEPT !.reg_result = "register:result"],
               [x EXCEPT !.mon_transport = "monitor:transport"],
               [x EXCEPT !.mon_result = "monitor:result"] } : x \in {AllSucceed, u} }
    \cup { [u EXCEPT !.sm_u = "sm(bsd:u)"] }

bsdInitialize ==
  \E config \in InitConfigs, x \in Outcomes :
    LET o == bsdInitializeOutcome(Session, config, x)
    IN /\ dispatchCount + o.nDispatch <= MaxDispatch
       /\ g_bsdSrv' = o.sess.srv
       /\ g_bsdMonitor' = o.sess.mon
       /\ g_bsdTmem' = o.sess.tmem
       /\ g_bsdClientPid' = o.sess.pid
       /\ dispatchCount' = dispatchCount + o.nDispatch
       /\ call' = [NoCall EXCEPT !.op = "bsdInitialize", !.rc = o.rc, !.log = o.log,
                                 !.config = config, !.reg = o.reg, !.nDispatch = o.nDispatch,
                                 !.sessionBefore = serviceIsActive(g_bsdSrv)]
       /\ UNCHANGED <<errno, probe>>

bsdExit ==
  LET s == bsdExitSession(Session)
  IN /\ g_bsdSrv' = s.srv
     /\ g_bsdMonitor' = s.mon
     /\ g_bsdTmem' = s.tmem
     /\ g_bsdClientPid' = s.pid
     /\ call' = [NoCall EXCEPT !.op = "bsdExit", !.sessionBefore = serviceIsActive(g_bsdSrv)]
     /\ UNCHANGED <<errno, dispatchCount, probe>>

(***************************************************************************)
(* Socket operations.  Pointers are names; sizeof values are the target's. *)
(***************************************************************************)
sizeof_fd_set == 128
sizeof_pollfd == 8
sizeof_ifconf == 16
sizeof_ifmediareq == 48

_bsdSocketCreationCommand(op, cmd_id) ==
  \E domain \in {2}, type \in {1, 2}, protocol \in {0} :
    Dispatched(op, -1, Cmd(cmd_id, <<<<"domain", domain>>, <<"type", type>>, <<"protocol", protocol>>>>, <<>>),
               "basic", NoLen, 0, 0)

\* static int _bsdNameGetterCommand(u32 cmd_id, int sockfd, struct sockaddr *addr, socklen_t *addrlen)
_bsdNameGetterCommand(op, cmd_id) ==
  \E sockfd \in Fds, addrlen \in LenPtrs :
    LET maxaddrlen == IF addrlen.null THEN 0 ELSE addrlen.val
    IN Dispatched(op, sockfd, Cmd(cmd_id, <<<<"sockfd", sockfd>>>>,
                          <<ipcAddRecvBuffer("addr", maxaddrlen, 0),
                            ipcAddRecvStatic("addr", maxaddrlen, 0)>>),
                  "addrlen", addrlen, 0, 0)

bsdSocket ==
  /\ Within
  /\ _bsdSocketCreationCommand("bsdSocket", 2)

bsdSocketExempt ==
  /\ Within
  /\ _bsdSocketCreationCommand("bsdSocketExempt", 3)

bsdOpen ==
  /\ Within
  /\ \E pathlen \in {9}, flags \in {0} :
       Dispatched("bsdOpen", -1, Cmd(4, <<<<"flags", flags>>>>,
                                 <<ipcAddSendBuffer("pathname", pathlen, 0),
                                   ipcAddSendStatic("pathname", pathlen, 0)>>),
                  "basic", NoLen, 0, 0)

bsdSelect ==
  /\ Within
  /\ \E nfds \in {5}, timeout \in {NULL, "timeout"} :
       Dispatched("bsdSelect", -1,
                  Cmd(5, <<<<"nfds", nfds>>>>
                         \o (IF timeout = NULL THEN <<>> ELSE <<<<"timeout", 1>>>>)
                         \o <<<<"nullTimeout", IF timeout = NULL THEN 1 ELSE 0>>>>,
                      <<ipcAddSendBuffer("readfds", sizeof_fd_set, 0),
                        ipcAddSendStatic("readfds", sizeof_fd_set, 0),
                        ipcAddSendBuffer("writefds", sizeof_fd_set, 0),
                        ipcAddSendStatic("writefds", sizeof_fd_set, 0),
                        ipcAddSendBuffer("exceptfds", sizeof_fd_set, 0),
                        ipcAddSendStatic("exceptfds", sizeof_fd_set, 0),
                        ipcAddRecvBuffer("readfds", sizeof_fd_set, 0),
                        ipcAddRecvStatic("readfds", sizeof_fd_set, 0),
                        ipcAddRecvBuffer("writefds", sizeof_fd_set, 0),
                        ipcAddRecvStatic("writefds", sizeof_fd_set, 0),
                        ipcAddRecvBuffer("exceptfds", sizeof_fd_set, 0),
                        ipcAddRecvStatic("exceptfds", sizeof_fd_set, 0)>>),
                  "basic", NoLen, 0, 0)

bsdPoll ==
  /\ Within
  /\ \E nfds \in {1}, timeout \in {0, 100} :
       Dispatched("bsdPoll", -1, Cmd(6, <<<<"nfds", nfds>>, <<"timeout", timeout>>>>,
                                 <<ipcAddSendBuffer("fds", sizeof_pollfd, 0),
                                   ipcAddSendStatic("fds", sizeof_pollfd, 0),
                                   ipcAddRecvBuffer("fds", sizeof_pollfd, 0),
                                   ipcAddRecvStatic("fds", sizeof_pollfd, 0)>>),
                  "basic", NoLen, 0, 0)

bsdSysctl ==
  /\ Within
  /\ \E namelen \in {2}, oldlenp \in LenPtrs, newlen \in {0} :
       LET inlen == IF oldlenp.null THEN 0 ELSE oldlenp.val
       IN Dispatched("bsdSysctl", -1, Cmd(7, <<>>,
                                      <<ipcAddSendBuffer("name", 4 * namelen, 0),
                                        ipcAddSendStatic("name", 4 * namelen, 0),
                                        ipcAddSendBuffer("newp", newlen, 0),
                                        ipcAddSendStatic("newp", newlen, 0),
                                        ipcAddRecvBuffer("oldp", inlen, 0),
                                        ipcAddRecvStatic("oldp", inlen, 0)>>),
                     "sysctl", oldlenp, 0, 0)

bsdRecv ==
  /\ Within
  /\ \E sockfd \in Fds, len \in {64}, flags \in {0} :
       Dispatched("bsdRecv", sockfd, Cmd(8, <<<<"sockfd", sockfd>>, <<"flags", flags>>>>,
                                 <<ipcAddRecvBuffer("buf", len, 0),
                                   ipcAddRecvStatic("buf", len, 0)>>),
                  "basic", NoLen, 0, 0)

bsdRecvFrom ==
  /\ Within
  /\ \E sockfd \in Fds, len \in {64}, flags \in {0}, addrlen \in LenPtrs :
       LET inaddrlen == IF addrlen.null THEN 0 ELSE addrlen.val
       IN Dispatched("bsdRecvFrom", sockfd, Cmd(9, <<<<"sockfd", sockfd>>, <<"flags", flags>>>>,
                                        <<ipcAddRecvBuffer("buf", len, 0),
                                          ipcAddRecvStatic("buf", len, 0),
                                          ipcAddRecvBuffer("src_addr", inaddrlen, 0),
                                          ipcAddRecvBuffer("src_addr", inaddrlen, 0)>>),
                     "addrlen", addrlen, 0, 0)

bsdSend ==
  /\ Within
  /\ \E sockfd \in Fds, len \in {64}, flags \in {0} :
       Dispatched("bsdSend", sockfd, Cmd(10, <<<<"sockfd", sockfd>>, <<"flags", flags>>>>,
                                 <<ipcAddSendBuffer("buf", len, 0),
                                   ipcAddSendStatic("buf", len, 0)>>),
                  "basic", NoLen, 0, 0)

bsdSendTo ==
  /\ Within
  /\ \E sockfd \in Fds, len \in {64}, flags \in {0}, addrlen \in {16} :
       Dispatched("bsdSendTo", sockfd, Cmd(11, <<<<"sockfd", sockfd>>, <<"flags", flags>>>>,
                                   <<ipcAddSendBuffer("buf", len, 0),
                                     ipcAddSendStatic("buf", len, 0),
                                     ipcAddSendBuffer("dest_addr", addrlen, 1),
                                     ipcAddSendStatic("dest_addr", addrlen, 1)>>),
                  "basic", NoLen, 0, 0)

bsdAccept ==
  /\ Within
  /\ _bsdNameGetterCommand("bsdAccept", 12)

bsdBind ==
  /\ Within
  /\ \E sockfd \in Fds, addrlen \in {16} :
       Dispatched("bsdBind", sockfd, Cmd(13, <<>>,
                                 <<ipcAddSendBuffer("addr", addrlen, 0),
                                   ipcAddSendStatic("addr", addrlen, 0)>>),
                  "basic", NoLen, 0, 0)

bsdConnect ==
  /\ Within
  /\ \E sockfd \in Fds, addrlen \in {16} :
       Dispatched("bsdConnect", sockfd, Cmd(14, <<<<"sockfd", sockfd>>>>,
                                    <<ipcAddSendBuffer("addr", addrlen, 0),
                                      ipcAddSendStatic("addr", addrlen, 0)>>),
                  "basic", NoLen, 0, 0)

bsdGetPeerName ==
  /\ Within
  /\ _bsdNameGetterCommand("bsdGetPeerName", 15)

bsdGetSockName ==
  /\ Within
  /\ _bsdNameGetterCommand("bsdGetSockName", 16)

bsdGetSockOpt ==
  /\ Within
  /\ \E sockfd \in Fds, level \in {65535}, optname \in {4}, optlen \in LenPtrs :
       LET inoptlen == IF optlen.null THEN 0 ELSE optlen.val
       IN Dispatched("bsdGetSockOpt", sockfd,
                     Cmd(17, <<<<"sockfd", sockfd>>, <<"level", level>>, <<"optname", optname>>>>,
                         <<ipcAddRecvBuffer("optval", inoptlen, 0),
                           ipcAddRecvStatic("optval", inoptlen, 0)>>),
                     "basic", optlen, 0, 0)

bsdListen ==
  /\ Within
  /\ \E sockfd \in Fds, backlog \in {8} :
       Dispatched("bsdListen", sockfd, Cmd(18, <<<<"sockfd", sockfd>>, <<"backlog", backlog>>>>, <<>>),
                  "basic", NoLen, 0, 0)

\* the bit fields of an ioctl request code (a 32-bit int: bits 31, 30 and 29 are
\* IOC_IN, IOC_OUT and IOC_VOID, bits 16..28 the parameter length)
Hi16(request) == (request \div 65536) % 65536
IOC_IN(request) == Hi16(request) \div 32768 = 1
IOC_OUT(request) == (Hi16(request) \div 16384) % 2 = 1
IOC_INOUT(request) == IOC_IN(request) \/ IOC_OUT(request)
IOCPARM_LEN(request) == Hi16(request) % 8192

\* _IOWR('i', 36, struct ifconf), _IOWR('i', 56, struct ifmediareq), _IOWR('i', 139, struct ifmediareq)
SIOCGIFCONF == -1072666332
SIOCGIFMEDIA == -1070569160
SIOCGIFXMEDIA == -1070569077
\* _IOW('f', 126, int), _IOR('f', 127, int), _IOWR('i', 17, 32 bytes), _IO('f', 1)
GenericRequests == {-2147195266, 1074030207, -1071617775, 536897025}
Requests == {SIOCGIFCONF, SIOCGIFMEDIA, SIOCGIFXMEDIA} \cup GenericRequests

\* what the caller's variadic pointer points at
VaData == [ptr : {"data"}, ifc_len : {64}, ifm_count : {2}]

\* mutant: the generic branch takes its argument whatever the direction bits
GenericTakesArg_Always(request) == TRUE

\* the generic branch's "if(request & IOC_INOUT) data = va_arg(args, void *)"
GenericTakesArg(request) == IOC_INOUT(request)

Slot(ptr, sz) == [ptr |-> ptr, sz |-> sz]
NoSlot == Slot(NULL, 0)

\* the switch of bsdIoctl_v: the four input and four output slots, bufcount, and the
\* number of va_arg reads
IoctlBuffers(request, data) ==
  IF request = SIOCGIFCONF
  THEN [in |-> <<Slot(data.ptr, sizeof_ifconf), Slot("data->ifc_req", data.ifc_len), NoSlot, NoSlot>>,
        out |-> <<Slot(data.ptr, sizeof_ifconf), Slot("data->ifc_req", data.ifc_len), NoSlot, NoSlot>>,
        bufcount |-> 2, vaTaken |-> 1]
  ELSE IF request = SIOCGIFMEDIA \/ request = SIOCGIFXMEDIA
  THEN [in |-> <<Slot(data.ptr, sizeof_ifmediareq), Slot("data->ifm_ulist", 8 * data.ifm_count), NoSlot, NoSlot>>,
        out |-> <<Slot(data.ptr, sizeof_ifmediareq), Slot("data->ifm_ulist", 8 * data.ifm_count), NoSlot, NoSlot>>,
        bufcount |-> 2, vaTaken |-> 1]
  ELSE LET taken == GenericTakesArg(request)
           d == IF taken THEN data.ptr ELSE NULL
       IN [in |-> <<IF IOC_IN(request) THEN Slot(d, IOCPARM_LEN(request)) ELSE NoSlot, NoSlot, NoSlot, NoSlot>>,
           out |-> <<IF IOC_OUT(request) THEN Slot(d, IOCPARM_LEN(request)) ELSE NoSlot, NoSlot, NoSlot, NoSlot>>,
           bufcount |-> 1, vaTaken |-> IF taken THEN 1 ELSE 0]

\* int bsdIoctl(int fd, int request, ...) and bsdIoctl_v
bsdIoctl ==
  /\ Within
  /\ \E sockfd \in Fds, request \in Requests, data \in VaData :
       LET b == IoctlBuffers(request, data)
           send(i) == <<ipcAddSendBuffer(b.in[i].ptr, b.in[i].sz, 0), ipcAddSendStatic(b.in[i].ptr, b.in[i].sz, 0)>>
           recv(i) == <<ipcAddRecvBuffer(b.out[i].ptr, b.out[i].sz, 0), ipcAddRecvStatic(b.out[i].ptr, b.out[i].sz, 0)>>
       IN Dispatched("bsdIoctl", sockfd,
                     Cmd(19, <<<<"fd", sockfd>>, <<"request", request>>, <<"bufcount", b.bufcount>>>>,
                         send(1) \o send(2) \o send(3) \o send(4) \o recv(1) \o recv(2) \o recv(3) \o recv(4)),
                     "basic", NoLen, request, b.vaTaken)

\* mutant: only F_GETFL is rejected
FnctlRejected_GetOnly(cmd) == cmd = F_GETFL

\* bsdFnctl_v's "if(cmd == F_GETFL || cmd == F_SETFL)"
FnctlRejected(cmd) == cmd = F_GETFL \/ cmd = F_SETFL

\* int bsdFnctl(int fd, int cmd, ...) and bsdFnctl_v; cmd 0 and 1 are F_DUPFD and F_GETFD
bsdFnctl ==
  \E sockfd \in Fds, cmd \in {0, 1, F_GETFL, F_SETFL}, vaArg \in {2048} :
    IF FnctlRejected(cmd)
    THEN /\ errno' = 0
         /\ call' = [NoCall EXCEPT !.op = "bsdFnctl", !.fd = sockfd, !.ret = -1, !.request = cmd,
                                   !.sessionBefore = serviceIsActive(g_bsdSrv)]
         /\ UNCHANGED <<g_bsdSrv, g_bsdMonitor, g_bsdTmem, g_bsdClientPid, dispatchCount, probe>>
    ELSE LET arg == IF cmd = F_SETFL THEN vaArg ELSE 0
         IN Within /\ Dispatched("bsdFnctl", sockfd,
                       Cmd(20, <<<<"fd", sockfd>>, <<"cmd", cmd>>, <<"arg", arg>>>>, <<>>),
                       "basic", NoLen, cmd, IF cmd = F_SETFL THEN 1 ELSE 0)

bsdSetSockOpt ==
  /\ Within
  /\ \E sockfd \in Fds, level \in {65535}, optname \in {4}, optlen \in {4} :
       Dispatched("bsdSetSockOpt", sockfd,
                  Cmd(21, <<<<"sockfd", sockfd>>, <<"level", level>>, <<"optname", optname>>>>,
                      <<ipcAddSendBuffer("optval", optlen, 0),
                        ipcAddSendStatic("optval", optlen, 0)>>),
                  "basic", NoLen, 0, 0)

bsdShutdown ==
  /\ Within
  /\ \E sockfd \in Fds, how \in {2} :
       Dispatched("bsdShutdown", sockfd, Cmd(22, <<<<"sockfd", sockfd>>, <<"how", how>>>>, <<>>),
                  "basic", NoLen, 0, 0)

bsdShutdownAllSockets ==
  /\ Within
  /\ \E how \in {0, 2} :
       Dispatched("bsdShutdownAllSockets", -1, Cmd(23, <<<<"how", how>>>>, <<>>),
                  "basic", NoLen, 0, 0)

bsdWrite ==
  /\ Within
  /\ \E sockfd \in Fds, count \in {64} :
       Dispatched("bsdWrite", sockfd, Cmd(24, <<<<"fd", sockfd>>>>,
                                          <<ipcAddSendBuffer("buf", count, 0),
                                            ipcAddSendStatic("buf", count, 0)>>),
                  "basic", NoLen, 0, 0)

bsdRead ==
  /\ Within
  /\ \E sockfd \in Fds, count \in {64} :
       Dispatched("bsdRead", sockfd, Cmd(25, <<<<"fd", sockfd>>>>,
                                         <<ipcAddRecvBuffer("buf", count, 0),
                                           ipcAddRecvStatic("buf", count, 0)>>),
                  "basic", NoLen, 0, 0)

bsdClose ==
  /\ Within
  /\ \E sockfd \in Fds :
       Dispatched("bsdClose", sockfd, Cmd(26, <<<<"fd", sockfd>>>>, <<>>), "basic", NoLen, 0, 0)

bsdDuplicateSocket ==
  /\ Within
  /\ \E sockfd \in Fds :
       Dispatched("bsdDuplicateSocket", sockfd,
                  Cmd(27, <<<<"sockfd", sockfd>>, <<"reserved", 0>>>>, <<>>), "basic", NoLen, 0, 0)

(***************************************************************************)
(* The program: any sequence of calls, starting from the static state.     *)
(***************************************************************************)
Init ==
  /\ g_bsdSrv = NoService
  /\ g_bsdMonitor = NoService
  /\ g_bsdTmem = NoTmem
  /\ g_bsdClientPid = -1
  /\ errno = 0
  /\ dispatchCount = 0
  /\ call = NoCall
  /\ probe = NoProbe

Next ==
  \/ bsdInitialize
  \/ bsdExit
  \/ bsdSocket
  \/ bsdSocketExempt
  \/ bsdOpen
  \/ bsdSelect
  \/ bsdPoll
  \/ bsdSysctl
  \/ bsdRecv
  \/ bsdRecvFrom
  \/ bsdSend
  \/ bsdSendTo
  \/ bsdAccept
  \/ bsdBind
  \/ bsdConnect
  \/ bsdGetPeerName
  \/ bsdGetSockName
  \/ bsdGetSockOpt
  \/ bsdListen
  \/ bsdIoctl
  \/ bsdFnctl
  \/ bsdSetSockOpt
  \/ bsdShutdown
  \/ bsdShutdownAllSockets
  \/ bsdWrite
  \/ bsdRead
  \/ bsdClose
  \/ bsdDuplicateSocket

Spec == Init /\ [][Next]_vars

(***************************************************************************)
(* Probing the size function: two configurations that differ in one field, *)
(* the second holding the larger value, are both sized; bsdInitialize can  *)
(* then be called with the first.                                          *)
(***************************************************************************)
Fields == {"tcp_tx_buf_size", "tcp_rx_buf_size", "tcp_tx_buf_max_size", "tcp_rx_buf_max_size",
           "udp_tx_buf_size", "udp_rx_buf_size", "sb_efficiency"}
MaxFields == {"tcp_tx_buf_max_size", "tcp_rx_buf_max_size"}

BaseConfigs ==
  { g_defaultBsdBufferConfig,
    [g_defaultBsdBufferConfig EXCEPT !.tcp_tx_buf_max_size = U32(0), !.tcp_rx_buf_max_size = U32(0)],
    [g_defaultBsdBufferConfig EXCEPT !.udp_rx_buf_size = <<0, 0, 240, 255>>],
    [version |-> U32(1), tcp_tx_buf_size |-> U32(0), tcp_rx_buf_size |-> U32(0),
     tcp_tx_buf_max_size |-> U32(0), tcp_rx_buf_max_size |-> U32(0),
     udp_tx_buf_size |-> U32(0), udp_rx_buf_size |-> U32(0), sb_efficiency |-> U32(0)] }

\* 0x1000, 0x100000
FieldValues == {U32(4096), U32(1048576)}

ProbePairs ==
  { [NoProbe EXCEPT !.pc = "start", !.lo = t[1], !.hi = [t[1] EXCEPT ![t[2]] = t[3]], !.field = t[2]] :
      t \in { u \in BaseConfigs \X Fields \X FieldValues : Less(u[1][u[2]], u[3]) } }

InitSize ==
  /\ g_bsdSrv = NoService
  /\ g_bsdMonitor = NoService
  /\ g_bsdTmem = NoTmem
  /\ g_bsdClientPid = -1
  /\ errno = 0
  /\ dispatchCount = 0
  /\ call = NoCall
  /\ probe \in ProbePairs

ProbeSizes ==
  /\ probe.pc = "start"
  /\ probe' = [probe EXCEPT !.pc = "done",
                            !.sizeLo = _bsdGetTransferMemSizeForConfig(probe.lo),
                            !.sizeHi = _bsdGetTransferMemSizeForConfig(probe.hi)]
  /\ UNCHANGED <<g_bsdSrv, g_bsdMonitor, g_bsdTmem, g_bsdClientPid, errno, dispatchCount, call>>

NextSize ==
  \/ ProbeSizes
  \/ bsdInitialize
  \/ bsdExit

SpecSize == InitSize /\ [][NextSize]_vars

(***************************************************************************)
(* Properties.                                                             *)
(***************************************************************************)
\* the last call was a socket operation that sent a command on the control channel
SentCommand == call.cmd # NoCmd

\* C1: whenever a socket operation's transport call fails, the operation returns -1 with
\* errno EPIPE and writes nothing back, whatever the reply buffer holds.
C1_TransportFailure ==
  (SentCommand /\ R_FAILED(call.transport))
    => (call.ret = -1 /\ errno = EPIPE /\ call.lenOut = call.lenIn)

C1_Witness ==
  /\ SentCommand /\ call.sessionBefore
  /\ R_FAILED(call.transport)
  /\ call.reply.result = Success /\ call.reply.ret = 0
  /\ call.ret = -1 /\ errno = EPIPE

ReplyReportsPosixFailure ==
  SentCommand /\ R_SUCCEEDED(call.transport) /\ call.reply.result = Success /\ call.reply.ret = -1

\* C2 as stated: a reply with status success and return value -1 gives -1 with errno equal
\* to the reply's errno field, and errno is never EPIPE.
C2_NeverEpipe ==
  ReplyReportsPosixFailure
    => (call.ret = -1 /\ errno = call.reply.errno_ /\ errno # EPIPE)

\* C2 amended: a reply with status success and return value -1 gives -1 with errno equal to
\* the reply's errno field, for every value of that field; errno is EPIPE exactly when the
\* reply's errno field is EPIPE.
C2_ErrnoFromReply ==
  ReplyReportsPosixFailure
    => (call.ret = -1 /\ errno = call.reply.errno_ /\ (errno = EPIPE <=> call.reply.errno_ = EPIPE))

C2_Witness ==
  ReplyReportsPosixFailure /\ call.reply.errno_ = 11 /\ errno = 11 /\ call.ret = -1

AllLive == serviceIsActive(g_bsdSrv) /\ serviceIsActive(g_bsdMonitor) /\ g_bsdTmem.live
NoneLive == ~serviceIsActive(g_bsdSrv) /\ ~serviceIsActive(g_bsdMonitor) /\ ~g_bsdTmem.live

\* C3: bsdInitialize called while a session exists returns AlreadyInitialized, performs no
\* step (no channel resolved, no transfer memory created, no request sent) and leaves both
\* channels, the transfer memory and the client id as they were.
C3_SecondInitialize ==
  [][ (call'.op = "bsdInitialize" /\ serviceIsActive(g_bsdSrv) /\ serviceIsActive(g_bsdMonitor))
        => /\ call'.rc = AlreadyInitialized
           /\ call'.log = <<>>
           /\ call'.nDispatch = 0
           /\ call'.reg = NoRegister
           /\ UNCHANGED <<g_bsdSrv, g_bsdMonitor, g_bsdTmem, g_bsdClientPid, dispatchCount>> ]_vars

C3_Witness ==
  /\ call.op = "bsdInitialize" /\ call.rc = AlreadyInitialized /\ call.sessionBefore
  /\ AllLive /\ call.log = <<>>

InitializeFailed ==
  call.op = "bsdInitialize" /\ R_FAILED(call.rc) /\ call.rc # AlreadyInitialized

\* the errors bsdInitialize can end with when st is the last step it took before tearing
\* down (a failure to resolve "bsd:s" is not final: "bsd:u" is tried next)
FailingStepErrors(st) ==
  IF st.step = "smGetService" /\ st.target = "g_bsdSrv" /\ st.name = "bsd:u" THEN {"sm(bsd:u)"}
  ELSE IF st.step = "smGetService" /\ st.target = "g_bsdMonitor" THEN {"sm(monitor)"}
  ELSE IF st.step = "tmemCreate" THEN {"tmemCreate"}
  ELSE IF st.step = "serviceIpcDispatch" /\ st.name = "register-client"
       THEN {"register:transport", "register:result"}
  ELSE IF st.step = "serviceIpcDispatch" /\ st.name = "start-monitor"
       THEN {"monitor:transport", "monitor:result"}
  ELSE {}

\* C4: between calls the two channels and the transfer memory are all live or all not; a
\* failed bsdInitialize returns the error of the step that failed, after the teardown, with
\* none of them live, and a bsdInitialize that follows it is not rejected as
\* AlreadyInitialized.
C4_AllOrNothing ==
  /\ [](/\ AllLive \/ NoneLive
        /\ InitializeFailed
             => /\ NoneLive
                /\ Len(call.log) >= 2
                /\ call.log[Len(call.log)].step = "bsdExit"
                /\ call.rc \in FailingStepErrors(call.log[Len(call.log) - 1]))
  /\ [][ (InitializeFailed /\ call'.op = "bsdInitialize") => call'.rc # AlreadyInitialized ]_vars

C4_Witness ==
  /\ InitializeFailed /\ call.rc = "register:result" /\ NoneLive
  /\ Len(call.log) = 5 /\ call.nDispatch = 1

\* the size formula over the naturals: no wrap-around
Wide(x) == Widen(x, WideLen)
MathSum(config) ==
  LET maxTcpTx == IF IsZero(config.tcp_tx_buf_max_size) THEN config.tcp_tx_buf_size
                  ELSE config.tcp_tx_buf_max_size
      maxTcpRx == IF IsZero(config.tcp_rx_buf_max_size) THEN config.tcp_rx_buf_size
                  ELSE config.tcp_rx_buf_max_size
  IN Add(Add(Wide(maxTcpTx), Wide(maxTcpRx)), Add(Wide(config.udp_tx_buf_size), Wide(config.udp_rx_buf_size)))
MathSize(config) == Mul(Wide(config.sb_efficiency), PageRoundUp(MathSum(config)))
\* w modulo 2^32, as a size_t
Mod32(w) == Widen(Truncate(w, U32Len), 8)
\* neither the rounded sum nor the product passes 2^32 - 1
NoWrap(config) == FitsU32(PageRoundUp(MathSum(config))) /\ FitsU32(MathSize(config))

\* C5 as stated: of two configurations that differ in one field, the one with the larger
\* value gets a size at least as large.
C5_Monotonic ==
  probe.pc = "done" => Leq(probe.sizeLo, probe.sizeHi)

\* C5 amended: of two configurations that differ in one field, the one with the larger value
\* gets a size at least as large, provided neither computation wraps around 2^32 and, when
\* the field is tcp_tx_buf_max_size or tcp_rx_buf_max_size, the smaller value is not 0 (a
\* maximum of 0 stands for the plain tcp buffer size).
C5_MonotonicNoWrap ==
  ( /\ probe.pc = "done"
    /\ NoWrap(probe.lo) /\ NoWrap(probe.hi)
    /\ probe.field \in MaxFields => ~IsZero(probe.lo[probe.field]) )
    => Leq(probe.sizeLo, probe.sizeHi)

C5_Witness ==
  /\ probe.pc = "done"
  /\ NoWrap(probe.lo) /\ NoWrap(probe.hi)
  /\ probe.field = "tcp_tx_buf_max_size" /\ ~IsZero(probe.lo.tcp_tx_buf_max_size)
  /\ Less(probe.sizeLo, probe.sizeHi)

\* the sizes bsdInitialize handed to tmemCreate in the last call
TmemCreateSizes == { call.log[i].size : i \in { j \in 1..Len(call.log) : call.log[j].step = "tmemCreate" } }

\* C6 as stated: the computed size is efficiency * roundUpTo4096(maxTcpTx + maxTcpRx +
\* udpTx + udpRx) for every configuration, and that is what tmemCreate and the
\* register-client request get.
C6_Formula ==
  /\ probe.pc = "done"
       => /\ Wide(probe.sizeLo) = MathSize(probe.lo)
          /\ Wide(probe.sizeHi) = MathSize(probe.hi)
  /\ call.op = "bsdInitialize"
       => /\ \A sz \in TmemCreateSizes : Wide(sz) = MathSize(call.config)
          /\ call.reg # NoRegister => Wide(call.reg.tmem_sz) = MathSize(call.config)

\* C6 amended: the computed size is efficiency * roundUpTo4096(maxTcpTx + maxTcpRx + udpTx +
\* udpRx) reduced modulo 2^32 (the arithmetic is unsigned 32-bit); for the default
\* configuration it is 0x234000; it is the size given to tmemCreate and, with the
\* configuration, carried by the register-client request.
C6_FormulaMod32 ==
  /\ probe.pc = "done"
       => /\ probe.sizeLo = Mod32(MathSize(probe.lo))
          /\ probe.sizeHi = Mod32(MathSize(probe.hi))
  /\ call.op = "bsdInitialize"
       => /\ \A sz \in TmemCreateSizes :
               /\ sz = Mod32(MathSize(call.config))
               /\ call.config = g_defaultBsdBufferConfig => sz = Widen(U32(2310144), 8)
          /\ call.reg # NoRegister
               => /\ call.reg.tmem_sz = Mod32(MathSize(call.config))
                  /\ call.reg.config = call.config
                  /\ call.reg.cmd_id = 0

C6_Witness ==
  /\ call.op = "bsdInitialize" /\ call.rc = Success
  /\ call.config = g_defaultBsdBufferConfig
  /\ TmemCreateSizes = {Widen(U32(2310144), 8)}
  /\ g_bsdTmem.live /\ g_bsdTmem.size = Widen(U32(2310144), 8)
  /\ call.reg.tmem_sz = Widen(U32(2310144), 8)
  /\ probe.pc = "done"

\* every logical buffer is a dynamic descriptor directly followed by a static one with the
\* same direction, pointer and length
PairedDescs(d) ==
  /\ Len(d) % 2 = 0
  /\ \A i \in 1..(Len(d) \div 2) :
       /\ d[2 * i - 1].kind = "buffer"
       /\ d[2 * i].kind = "static"
       /\ d[2 * i - 1].dir = d[2 * i].dir
       /\ d[2 * i - 1].ptr = d[2 * i].ptr
       /\ d[2 * i - 1].len = d[2 * i].len

\* C7: in every operation that attaches descriptors, each buffer parameter is one dynamic
\* descriptor immediately followed by one static descriptor of the same direction, pointer
\* and length.
C7_DescriptorPairs ==
  SentCommand => PairedDescs(call.cmd.descs)

NameGetterOps == {"bsdAccept", "bsdGetPeerName", "bsdGetSockName"}

\* C8: accept, getpeername and getsockname overwrite the caller's address length, with the
\* reply's trailing field, exactly when the return value is not -1 and the pointer is not
\* null; after a transport failure, a failure status or a return value of -1 it is
\* untouched; the receive capacity declared is the caller's length, or 0 for a null pointer.
C8_AddrlenOut ==
  call.op \in NameGetterOps
    => /\ IF call.ret # -1 /\ ~call.lenIn.null
          THEN call.lenOut = LenPtr(FALSE, call.reply.trailing)
          ELSE call.lenOut = call.lenIn
       /\ (R_FAILED(call.transport) \/ call.reply.result # Success \/ call.reply.ret = -1)
            => call.lenOut = call.lenIn
       /\ LET cap == IF call.lenIn.null THEN 0 ELSE call.lenIn.val
          IN call.cmd.descs = <<ipcAddRecvBuffer("addr", cap, 0), ipcAddRecvStatic("addr", cap, 0)>>

C8_Witness ==
  /\ call.op = "bsdAccept" /\ call.ret = 0
  /\ call.lenIn = LenPtr(FALSE, 16) /\ call.lenOut = LenPtr(FALSE, 28)

\* C9: fcntl with F_GETFL or F_SETFL returns -1 with errno 0 and the number of dispatches on
\* the control channel does not change; with any other request it dispatches once, command 20.
C9_Fcntl ==
  [][ call'.op = "bsdFnctl"
        => IF call'.request \in {F_GETFL, F_SETFL}
           THEN /\ call'.ret = -1 /\ errno' = 0
                /\ dispatchCount' = dispatchCount
                /\ call'.cmd = NoCmd /\ call'.nDispatch = 0
           ELSE /\ dispatchCount' = dispatchCount + 1
                /\ call'.nDispatch = 1
                /\ call'.cmd.cmd_id = 20 ]_vars

C9_Witness ==
  /\ call.op = "bsdFnctl" /\ call.request = F_SETFL /\ call.sessionBefore
  /\ call.ret = -1 /\ errno = 0 /\ call.nDispatch = 0

\* C10 as stated: ioctl reads exactly one variadic pointer for every request code.
C10_OneArgument ==
  call.op = "bsdIoctl" => call.vaTaken = 1

NamedRequests == {SIOCGIFCONF, SIOCGIFMEDIA, SIOCGIFXMEDIA}

\* C10 amended: ioctl reads exactly one variadic pointer for the interface-list and
\* media-request codes and for every generic code with an input or output direction bit; for
\* a generic code with neither bit it reads none, and every descriptor is null with length 0.
C10_ArgumentByDirection ==
  call.op = "bsdIoctl"
    => IF call.request \in NamedRequests \/ IOC_IN(call.request) \/ IOC_OUT(call.request)
       THEN call.vaTaken = 1
       ELSE /\ call.vaTaken = 0
            /\ \A i \in 1..Len(call.cmd.descs) :
                 call.cmd.descs[i].ptr = NULL /\ call.cmd.descs[i].len = 0

C10_Witness ==
  /\ call.op = "bsdIoctl" /\ call.request = 536897025
  /\ ~IOC_IN(call.request) /\ ~IOC_OUT(call.request)
  /\ call.vaTaken = 0

\* C11: getsockopt sets the caller's option length to the reply's trailing option-length
\* field when its return value is not -1 and the option-length pointer is not null, and
\* leaves it unchanged when the return value is -1 or the pointer is null.
C11_OptlenOut ==
  call.op = "bsdGetSockOpt"
    => IF call.ret # -1 /\ ~call.lenIn.null
       THEN call.lenOut = LenPtr(FALSE, call.reply.trailing)
       ELSE call.lenOut = call.lenIn

\* the operations that take a socket or file descriptor
DescriptorOps ==
  {"bsdRecv", "bsdRecvFrom", "bsdSend", "bsdSendTo", "bsdAccept", "bsdBind", "bsdConnect",
   "bsdGetPeerName", "bsdGetSockName", "bsdGetSockOpt", "bsdSetSockOpt", "bsdListen",
   "bsdIoctl", "bsdFnctl", "bsdShutdown", "bsdWrite", "bsdRead", "bsdClose",
   "bsdDuplicateSocket"}

\* the header starts with the magic and an operation code of the 0..27 table, and the
\* next field is the descriptor fd
HeaderCarries(cmd, fd) ==
  /\ Len(cmd.fields) >= 3
  /\ cmd.fields[1] = <<"magic", SFCI_MAGIC>>
  /\ cmd.fields[2] = <<"cmd_id", cmd.cmd_id>>
  /\ cmd.cmd_id \in 0..27
  /\ cmd.fields[3][2] = fd

\* C12: every operation that takes a socket or file descriptor writes it into its command
\* header after the magic and the operation code, so the command determines the descriptor.
C12_DescriptorInHeader ==
  (call.op \in DescriptorOps /\ SentCommand) => HeaderCarries(call.cmd, call.fd)

====
